---- MODULE Spec2Model ----
(***************************************************************************)
(* Snips-Bluetooth-Snapcast: the operation coordinator (class Bluetooth)   *)
(* over the bluetoothctl session wrapper (class BluetoothHelper), both of  *)
(* src/bluetoothctl.py, and the older wrapper Bluetoothctl of src/blctl.py.*)
(*                                                                         *)
(* Every MQTT callback starts a Python thread; the threads share one       *)
(* pexpect session (self.bl_helper.process) and three dictionaries, with   *)
(* no lock.  A thread is modelled by a record with a program counter; one  *)
(* step of a thread is one access to shared state (the session's output    *)
(* buffer, a dictionary) together with the thread-local code after it.     *)
(*                                                                         *)
(* The session's output is a sequence of tokens, one token per trigger     *)
(* text the code waits for.  A token is <<text, devices>>.                 *)
(***************************************************************************)
EXTENDS Integers, Sequences, FiniteSets, TLC

\* ------------------------------------------------------------------ bounds
\* Spec: requests taken from the bus, and operation threads alive at once
MaxOps == 3
MaxRunning == 1
\* FairSpec: requests taken from the bus (one operation thread at a time)
FairOps == 2
\* SpecBlctl: calls of the methods of Bluetoothctl
BlctlCalls == 3
\* SpecExpect: texts in the session output at the start, and expect calls
MaxBuf == 3
ExpectCalls == 2
\* SpecTrust: Trust and Untrust requests taken, and threads of them alive
\* at once
TrustOps == 2
TrustRunning == 1
\* SpecTwo: Connect and Disconnect requests taken, for two devices
TwoOps == 2
\* SpecParse: pieces of text in a line
MaxLine == 5
\* SpecDiscoverable: records in a listing
MaxList == 2
\* FairDiscover: Discover requests taken, and Discover threads alive at once
DiscoverOps == 2
DiscoverRunning == 2
\* disconnect markers the session emits on its own
MaxExt == 1

\* ------------------------------------------------------------- environment
Addr == {"A", "B"}
NoAddr == "-"
\* the name bluetoothctl lists for a device
DeviceName == [a \in Addr |-> IF a = "A" THEN "speaker" ELSE "phone"]
\* keys of config['soundcards']
soundcards == {"speaker"}

Kinds == {"discover", "connect", "disconnect", "trust", "untrust", "remove"}

\* ---------------------------------------------------------------- tokens
Tok(text) == <<text, {}>>
Prompt == Tok("0;94m")
ConnectedNo(a) == <<"Connected: no", {a}>>
\* the report of a connect or disconnect command: the text names no
\* device, the token keeps the device the command was about
About(text, a) == <<text, {a}>>
\* the "Device <addr> <name>" lines of one listing
Listing(S) == <<"Device", S>>
TIMEOUT == Tok("TIMEOUT")
EOF == Tok("EOF")

VARIABLES
    threads,                      \* every thread started so far, by id
    threadobjs,                   \* Bluetooth.threadobjs: kind -> thread id
    threadobjs_wait_disconnect,   \* Bluetooth.threadobjs_wait_disconnect: addr -> thread id
    connected_devices,            \* Bluetooth.connected_devices: addr -> name
    buffer,                       \* session output not yet consumed by an expect
    eof,                          \* the session has ended
    nops,                         \* requests taken so far
    next,                         \* markers emitted so far
    load,                         \* what the bus and the devices do at most:
                                  \* [ops, running, addrs], fixed by Init
    call,                         \* the call of a Bluetoothctl method (blctl.py)
                                  \* in progress: [pc, op, addr, ret]
    fn                            \* the call of a helper that touches neither the
                                  \* session nor the dictionaries:
                                  \* [name, arg, done, ret, raised]

vars == <<threads, threadobjs, threadobjs_wait_disconnect, connected_devices,
          buffer, eof, nops, next, load, call, fn>>

Tids == 1..Len(threads)

\* ------------------------------------------------------------ pexpect
\* A pattern with an address matches that address's token only.
Matches(pat, tok) == pat[1] = tok[1] /\ (pat[2] = {} \/ pat[2] = tok[2])

MatchesAny(pats, tok) == \E p \in 1..Len(pats) : Matches(pats[p], tok)

\* the match of the first pattern of the list that matches anywhere
MatchPos_listorder(pats, buf) ==
    IF \E i \in 1..Len(buf) : MatchesAny(pats, buf[i])
    THEN LET p == CHOOSE p \in 1..Len(pats) :
                     /\ \E i \in 1..Len(buf) : Matches(pats[p], buf[i])
                     /\ \A q \in 1..(p-1) : \A i \in 1..Len(buf) : ~Matches(pats[q], buf[i])
         IN CHOOSE i \in 1..Len(buf) :
               /\ Matches(pats[p], buf[i])
               /\ \A j \in 1..(i-1) : ~Matches(pats[p], buf[j])
    ELSE 0

\* position in the buffer of the earliest text any pattern matches, 0 if none
MatchPos(pats, buf) ==
    IF \E i \in 1..Len(buf) : MatchesAny(pats, buf[i])
    THEN CHOOSE i \in 1..Len(buf) :
            /\ MatchesAny(pats, buf[i])
            /\ \A j \in 1..(i-1) : ~MatchesAny(pats, buf[j])
    ELSE 0

\* Python index of a pattern in the list, -1 if it is not in the list
PatIndex(pats, p) ==
    IF \E i \in 1..Len(pats) : pats[i] = p
    THEN (CHOOSE i \in 1..Len(pats) : pats[i] = p) - 1
    ELSE -1

\* Python index of the first pattern of the list that matches at pos
MatchIdx(pats, buf, pos) ==
    (CHOOSE p \in 1..Len(pats) :
        /\ Matches(pats[p], buf[pos])
        /\ \A q \in 1..(p-1) : ~Matches(pats[q], buf[pos])) - 1

\* what expect gives when it raises instead of returning an index
RaisedEOF == -1
RaisedTIMEOUT == -2

\* spawn.expect(pats, timeout): the outcomes it can have now.  idx is the
\* index returned (or the exception raised), buf the buffer it leaves,
\* before what process.before holds.  A match consumes the output up to and
\* including the match; a timeout consumes nothing; the end of the session
\* empties the buffer.  bounded = the call has a finite timeout.
expect(pats, bounded) ==
    LET pos == MatchPos(pats, buffer) IN
    IF pos > 0
    THEN {[idx |-> MatchIdx(pats, buffer, pos),
           buf |-> SubSeq(buffer, pos + 1, Len(buffer)),
           before |-> SubSeq(buffer, 1, pos - 1)]}
    ELSE IF eof
    THEN {[idx |-> IF PatIndex(pats, EOF) >= 0 THEN PatIndex(pats, EOF) ELSE RaisedEOF,
           buf |-> <<>>, before |-> buffer]}
    ELSE IF bounded
    THEN {[idx |-> IF PatIndex(pats, TIMEOUT) >= 0 THEN PatIndex(pats, TIMEOUT)
                   ELSE RaisedTIMEOUT,
           buf |-> buffer, before |-> buffer]}
    ELSE {}

\* ------------------------------------------------------------ bluetoothctl
\* What bluetoothctl prints for a line it is sent.  It prints its prompt
\* when it has read the line and the report of the command after it; a
\* command may also stay silent.  Disconnecting (and removing a connected
\* device) reports the device's "Connected: no" too.
Responses(verb, a) ==
    {<<>>} \cup
    CASE verb = "scan on" ->
           {<<Tok("Discovery started")>>, <<Tok("Failed to start discovery")>>}
      [] verb \in {"devices", "paired-devices"} ->
           {<<Listing(S), Prompt>> : S \in SUBSET load.addrs}
      [] verb = "connect" ->
           {<<About("Connection successful", a)>>, <<About("Failed to connect", a)>>}
      [] verb = "disconnect" ->
           {<<About("Successful disconnected", a), ConnectedNo(a)>>,
            <<ConnectedNo(a), About("Successful disconnected", a)>>,
            <<About("Failed to disconnect", a)>>}
      [] verb = "trust" ->
           {<<Prompt, Tok("Trusted: yes")>>, <<Prompt, Tok("Failed to trust")>>}
      [] verb = "untrust" ->
           {<<Prompt, Tok("untrust succeeded")>>, <<Prompt, Tok("Failed to untrust")>>}
      [] verb = "remove" ->
           {<<Prompt, Tok("Device has been removed")>>,
            <<Prompt, Tok("Device has been removed"), ConnectedNo(a)>>,
            <<Prompt, Tok("not available")>>}

\* process.send(line): the line goes to bluetoothctl, which answers
process_send(verb, a) ==
    IF eof THEN buffer' = buffer
    ELSE \E r \in Responses(verb, a) : buffer' = buffer \o r

\* BluetoothHelper.send's wait for the prompt colour
PromptPatterns == <<Prompt, TIMEOUT, EOF>>

\* the addresses of the device records parse_device_info finds in the lines
\* of process.before
RECURSIVE ParsedDevices(_)
ParsedDevices(before) ==
    IF before = <<>> THEN {}
    ELSE (IF Head(before)[1] = "Device" THEN Head(before)[2] ELSE {})
         \cup ParsedDevices(Tail(before))

\* ------------------------------------------------------------ threads
Crashed == {"IndexError", "KeyError", "EOFError"}
Ended == Crashed \cup {"done"}

NewThread(kind, a, pc) ==
    [kind |-> kind, addr |-> a, pc |-> pc, result |-> "none", pubs |-> <<>>,
     \* history, read by the properties only: the thread deleted the address
     \* from connected_devices; the watcher saw its marker when an explicit
     \* Remove had already deleted the address
     removed |-> FALSE, after_remove |-> FALSE]

\* the number of events of a topic a thread has published
RECURSIVE CountTopic(_, _)
CountTopic(pubs, topic) ==
    IF pubs = <<>> THEN 0
    ELSE (IF Head(pubs)[1] = topic THEN 1 ELSE 0) + CountTopic(Tail(pubs), topic)

Goto(t, pc) == threads' = [threads EXCEPT ![t].pc = pc]

\* mqtt_client.publish(topic, payload) by a thread
Published(th, topic, res) == [th EXCEPT !.pubs = Append(@, <<topic, res>>)]

BoolStr(b) == IF b THEN "True" ELSE "False"

ResultTopic(kind) ==
    CASE kind = "discover" -> "bluetooth/result/devicesDiscover"
      [] kind = "connect" -> "bluetooth/result/deviceConnect"
      [] kind \in {"disconnect", "watch"} -> "bluetooth/result/deviceDisconnect"
      [] kind = "trust" -> "bluetooth/result/deviceTrust"
      [] kind = "untrust" -> "bluetooth/result/deviceUntrust"
      [] kind = "remove" -> "bluetooth/result/deviceRemove"

\* dictionary operations
Has(d, k) == k \in DOMAIN d
Put(d, k, v) == [x \in DOMAIN d \cup {k} |-> IF x = k THEN v ELSE d[x]]
Del(d, k) == [x \in DOMAIN d \ {k} |-> d[x]]

\* the parts of the state a step leaves alone
SessionOnly == UNCHANGED <<threadobjs, threadobjs_wait_disconnect, connected_devices,
                           eof, nops, next, load, call, fn>>
ThreadOnly == UNCHANGED <<threadobjs, threadobjs_wait_disconnect, connected_devices,
                          buffer, eof, nops, next, load, call, fn>>

\* ---------------------------------------------------- send_device_lists
\* get_available_devices() then get_paired_devices(), each a send and a
\* wait for the prompt, then the publish of update/deviceLists.

\* thread_discover returning right after send_device_lists()
AfterLists_discover_returns(th) ==
    IF th.kind = "watch"
    THEN [Published(th, ResultTopic("watch"), "True") EXCEPT !.pc = "done"]
    ELSE [th EXCEPT !.pc = "done"]

\* what the thread does once send_device_lists has returned
AfterLists(th) ==
    IF th.kind = "discover" THEN [th EXCEPT !.pc = "discoverable_send_devices"]
    ELSE IF th.kind = "watch"
    THEN [Published(th, ResultTopic("watch"), "True") EXCEPT !.pc = "done"]
    ELSE [th EXCEPT !.pc = "done"]

send_device_lists(t) ==
    LET th == threads[t] IN
    \/ /\ th.pc = "lists_send_devices"
       /\ process_send("devices", NoAddr)
       /\ Goto(t, "lists_expect_devices")
       /\ SessionOnly
    \/ /\ th.pc = "lists_expect_devices"
       /\ \E o \in expect(PromptPatterns, TRUE) :
            /\ buffer' = o.buf
            /\ Goto(t, "lists_send_paired")
       /\ SessionOnly
    \/ /\ th.pc = "lists_send_paired"
       /\ process_send("paired-devices", NoAddr)
       /\ Goto(t, "lists_expect_paired")
       /\ SessionOnly
    \/ /\ th.pc = "lists_expect_paired"
       /\ \E o \in expect(PromptPatterns, TRUE) :
            /\ buffer' = o.buf
            /\ threads' = [threads EXCEPT ![t] =
                  AfterLists(Published(th, "bluetooth/update/deviceLists", "-"))]
       /\ SessionOnly

\* ------------------------------------------------------- thread_discover
DiscoverPatterns == <<Tok("Failed to start discovery"), Tok("Discovery started"),
                      EOF, TIMEOUT>>

\* thread_discover with "if not result: return" moved before the publish
discover_result_silent(th, result) ==
    IF result
    THEN [Published(th, ResultTopic("discover"), "True")
            EXCEPT !.result = "True", !.pc = "lists_send_devices"]
    ELSE [th EXCEPT !.result = "False", !.pc = "done"]

\* the publish of the result of start_discover() and the early return
discover_result(th, result) ==
    [Published(th, ResultTopic("discover"), BoolStr(result))
        EXCEPT !.result = BoolStr(result),
               !.pc = IF result THEN "lists_send_devices" ELSE "done"]

thread_discover(t) ==
    LET th == threads[t] IN
    /\ th.kind = "discover"
    /\ \/ /\ th.pc = "start"
          /\ process_send("scan on", NoAddr)
          /\ Goto(t, "expect")
          /\ SessionOnly
       \/ /\ th.pc = "expect"
          /\ \E o \in expect(DiscoverPatterns, TRUE) :
               /\ buffer' = o.buf
               /\ threads' = [threads EXCEPT ![t] = discover_result(th, o.idx = 1)]
          /\ SessionOnly
       \* get_discoverable_devices(): both listings again
       \/ /\ th.pc = "discoverable_send_devices"
          /\ process_send("devices", NoAddr)
          /\ Goto(t, "discoverable_expect_devices")
          /\ SessionOnly
       \/ /\ th.pc = "discoverable_expect_devices"
          /\ \E o \in expect(PromptPatterns, TRUE) :
               /\ buffer' = o.buf
               /\ Goto(t, "discoverable_send_paired")
          /\ SessionOnly
       \/ /\ th.pc = "discoverable_send_paired"
          /\ process_send("paired-devices", NoAddr)
          /\ Goto(t, "discoverable_expect_paired")
          /\ SessionOnly
       \/ /\ th.pc = "discoverable_expect_paired"
          /\ \E o \in expect(PromptPatterns, TRUE) :
               /\ buffer' = o.buf
               /\ threads' = [threads EXCEPT ![t] =
                    [Published(th, "bluetooth/result/devicesDiscovered", "-")
                       EXCEPT !.pc = "done"]]
          /\ SessionOnly

\* ---------------------------------------------- thread_wait_until_disconnect
\* wait_for_disconnect(addr): no TIMEOUT and no EOF in the list, no timeout
WaitPatterns(a) == <<ConnectedNo(a)>>

\* the stop of the audio service bound to the name stored for the address
stop_service(th) ==
    IF connected_devices[th.addr] \in soundcards
    THEN Published(th, "snapclient/stopService", "-")
    ELSE th

\* an explicit Remove deleted the address, which is not in the store now
RemovedByRemove(a) ==
    /\ ~Has(connected_devices, a)
    /\ \E r \in Tids : /\ threads[r].kind = "remove" /\ threads[r].addr = a
                        /\ threads[r].removed

thread_wait_until_disconnect(t) ==
    LET th == threads[t] IN
    /\ th.kind = "watch"
    /\ \/ /\ th.pc = "wait"
          /\ \E o \in expect(WaitPatterns(th.addr), FALSE) :
               /\ buffer' = o.buf
               /\ threads' = [threads EXCEPT ![t] =
                     IF o.idx = RaisedEOF THEN [th EXCEPT !.pc = "EOFError"]
                     ELSE [th EXCEPT !.pc = "if_connected",
                                     !.after_remove = RemovedByRemove(th.addr)]]
          /\ SessionOnly
       \* after time.sleep(2)
       \/ /\ th.pc = "if_connected"
          /\ Goto(t, IF Has(connected_devices, th.addr) THEN "soundcard" ELSE "done")
          /\ ThreadOnly
       \/ /\ th.pc = "soundcard"
          /\ threads' = [threads EXCEPT ![t] =
                IF Has(connected_devices, th.addr)
                THEN [stop_service(th) EXCEPT !.pc = "del_connected"]
                ELSE [th EXCEPT !.pc = "KeyError"]]
          /\ ThreadOnly
       \/ /\ th.pc = "del_connected"
          /\ IF Has(connected_devices, th.addr)
             THEN /\ connected_devices' = Del(connected_devices, th.addr)
                  /\ threads' = [threads EXCEPT ![t].pc = "lists_send_devices",
                                                ![t].removed = TRUE]
             ELSE /\ Goto(t, "KeyError")
                  /\ UNCHANGED connected_devices
          /\ UNCHANGED <<threadobjs, threadobjs_wait_disconnect, buffer, eof, nops, next, load, call, fn>>

\* --------------------------------------------------------- thread_connect
ConnectPatterns == <<Tok("Failed to connect"), Tok("Connection successful"),
                     TIMEOUT, EOF>>

\* [d['name'] for d in available if d['mac_address'] == addr][0]
resolve_name(th, available) ==
    IF th.addr \in available THEN [th EXCEPT !.pc = "insert"]
    ELSE [th EXCEPT !.pc = "IndexError"]

\* the start of the watcher, when the address is not a key of the registry
start_watcher(t) ==
    LET th == threads[t] IN
    IF ~Has(threadobjs_wait_disconnect, th.addr)
    THEN /\ threads' = Append([threads EXCEPT ![t].pc = "soundcard"],
                              NewThread("watch", th.addr, "wait"))
         /\ threadobjs_wait_disconnect' =
                Put(threadobjs_wait_disconnect, th.addr, Len(threads) + 1)
    ELSE /\ Goto(t, "soundcard")
         /\ UNCHANGED threadobjs_wait_disconnect

thread_connect(t) ==
    LET th == threads[t] IN
    /\ th.kind = "connect"
    /\ \/ /\ th.pc = "start"
          /\ process_send("connect", th.addr)
          /\ Goto(t, "expect")
          /\ SessionOnly
       \/ /\ th.pc = "expect"
          /\ \E o \in expect(ConnectPatterns, TRUE) :
               LET result == (o.idx = 1) IN
               /\ buffer' = o.buf
               /\ threads' = [threads EXCEPT ![t] =
                    IF result
                    THEN [th EXCEPT !.result = "True", !.pc = "if_connected"]
                    ELSE [Published(th, ResultTopic("connect"), "False")
                            EXCEPT !.result = "False", !.pc = "lists_send_devices"]]
          /\ SessionOnly
       \/ /\ th.pc = "if_connected"
          /\ threads' = [threads EXCEPT ![t] =
                IF ~Has(connected_devices, th.addr)
                THEN [th EXCEPT !.pc = "available_send"]
                ELSE [Published(th, ResultTopic("connect"), "True")
                        EXCEPT !.pc = "lists_send_devices"]]
          /\ ThreadOnly
       \/ /\ th.pc = "available_send"
          /\ process_send("devices", NoAddr)
          /\ Goto(t, "available_expect")
          /\ SessionOnly
       \/ /\ th.pc = "available_expect"
          /\ \E o \in expect(PromptPatterns, TRUE) :
               /\ buffer' = o.buf
               /\ threads' = [threads EXCEPT ![t] =
                                 resolve_name(th, ParsedDevices(o.before))]
          /\ SessionOnly
       \/ /\ th.pc = "insert"
          /\ connected_devices' = Put(connected_devices, th.addr, DeviceName[th.addr])
          /\ Goto(t, "if_watched")
          /\ UNCHANGED <<threadobjs, threadobjs_wait_disconnect, buffer, eof, nops, next, load, call, fn>>
       \/ /\ th.pc = "if_watched"
          /\ start_watcher(t)
          /\ UNCHANGED <<threadobjs, connected_devices, buffer, eof, nops, next, load, call, fn>>
       \/ /\ th.pc = "soundcard"
          /\ threads' = [threads EXCEPT ![t] =
                IF ~Has(connected_devices, th.addr) THEN [th EXCEPT !.pc = "KeyError"]
                ELSE [Published(
                        IF connected_devices[th.addr] \in soundcards
                        THEN Published(th, "snapclient/startService", "-") ELSE th,
                        ResultTopic("connect"), "True")
                      EXCEPT !.pc = "lists_send_devices"]]
          /\ ThreadOnly

\* ------------------------------- thread_disconnect and thread_remove
DisconnectPatterns == <<Tok("Failed to disconnect"), Tok("Connected: no"),
                        Tok("Successful disconnected"), TIMEOUT, EOF>>
RemovePatterns == <<Tok("not available"), Tok("Device has been removed"),
                    EOF, TIMEOUT>>

\* the end of the session call of a disconnect or a remove
call_result(th, result) ==
    IF result THEN [th EXCEPT !.result = "True", !.pc = "if_connected"]
    ELSE [Published(th, ResultTopic(th.kind), "False")
            EXCEPT !.result = "False", !.pc = "lists_send_devices"]

\* "if addr in self.connected_devices": the membership test alone
cleanup_if_connected(t) ==
    LET th == threads[t] IN
    /\ th.pc = "if_connected"
    /\ Goto(t, IF Has(connected_devices, th.addr) THEN "soundcard" ELSE "if_watched")
    /\ ThreadOnly

\* the store and registry cleanup that thread_disconnect and thread_remove
\* share, statement by statement
cleanup(t) ==
    LET th == threads[t] IN
    \/ cleanup_if_connected(t)
    \/ /\ th.pc = "soundcard"
       /\ threads' = [threads EXCEPT ![t] =
             IF Has(connected_devices, th.addr)
             THEN [stop_service(th) EXCEPT !.pc = "del_connected"]
             ELSE [th EXCEPT !.pc = "KeyError"]]
       /\ ThreadOnly
    \/ /\ th.pc = "del_connected"
       /\ IF Has(connected_devices, th.addr)
          THEN /\ connected_devices' = Del(connected_devices, th.addr)
               /\ threads' = [threads EXCEPT ![t].pc = "if_watched",
                                             ![t].removed = TRUE]
          ELSE /\ Goto(t, "KeyError")
               /\ UNCHANGED connected_devices
       /\ UNCHANGED <<threadobjs, threadobjs_wait_disconnect, buffer, eof, nops, next, load, call, fn>>
    \/ /\ th.pc = "if_watched"
       /\ threads' = [threads EXCEPT ![t] =
             IF Has(threadobjs_wait_disconnect, th.addr)
             THEN [th EXCEPT !.pc = "del_watched"]
             ELSE [Published(th, ResultTopic(th.kind), "True")
                     EXCEPT !.pc = "lists_send_devices"]]
       /\ ThreadOnly
    \/ /\ th.pc = "del_watched"
       /\ IF Has(threadobjs_wait_disconnect, th.addr)
          THEN /\ threadobjs_wait_disconnect' = Del(threadobjs_wait_disconnect, th.addr)
               /\ threads' = [threads EXCEPT ![t] =
                     [Published(th, ResultTopic(th.kind), "True")
                        EXCEPT !.pc = "lists_send_devices"]]
          ELSE /\ Goto(t, "KeyError")
               /\ UNCHANGED threadobjs_wait_disconnect
       /\ UNCHANGED <<threadobjs, connected_devices, buffer, eof, nops, next, load, call, fn>>

thread_disconnect(t) ==
    LET th == threads[t] IN
    /\ th.kind = "disconnect"
    /\ \/ /\ th.pc = "start"
          /\ process_send("disconnect", th.addr)
          /\ Goto(t, "expect")
          /\ SessionOnly
       \/ /\ th.pc = "expect"
          /\ \E o \in expect(DisconnectPatterns, TRUE) :
               /\ buffer' = o.buf
               /\ threads' = [threads EXCEPT ![t] = call_result(th, o.idx \in {1, 2})]
          /\ SessionOnly
       \/ cleanup(t)

thread_remove(t) ==
    LET th == threads[t] IN
    /\ th.kind = "remove"
    /\ \/ /\ th.pc = "start"
          /\ process_send("remove", th.addr)
          /\ Goto(t, "send_expect")
          /\ SessionOnly
       \* BluetoothHelper.send: after the pause, the wait for the prompt
       \/ /\ th.pc = "send_expect"
          /\ \E o \in expect(PromptPatterns, TRUE) :
               /\ buffer' = o.buf
               /\ Goto(t, "expect")
          /\ SessionOnly
       \/ /\ th.pc = "expect"
          /\ \E o \in expect(RemovePatterns, TRUE) :
               /\ buffer' = o.buf
               /\ threads' = [threads EXCEPT ![t] = call_result(th, o.idx = 1)]
          /\ SessionOnly
       \/ cleanup(t)

\* ------------------------------------------ thread_trust and thread_untrust
TrustPatterns == <<Tok("Failed to trust"), Tok("Trusted: yes"), EOF, TIMEOUT>>
UntrustPatterns == <<Tok("Failed to untrust"), Tok("untrust succeeded"), EOF, TIMEOUT>>

\* thread_trust ending like thread_remove, with send_device_lists()
trust_result_with_lists(th, result) ==
    [Published(th, ResultTopic(th.kind), BoolStr(result))
        EXCEPT !.result = BoolStr(result), !.pc = "lists_send_devices"]

trust_result(th, result) ==
    [Published(th, ResultTopic(th.kind), BoolStr(result))
        EXCEPT !.result = BoolStr(result), !.pc = "done"]

thread_trust(t) ==
    LET th == threads[t] IN
    /\ th.kind = "trust"
    /\ \/ /\ th.pc = "start"
          /\ process_send("trust", th.addr)
          /\ Goto(t, "send_expect")
          /\ SessionOnly
       \/ /\ th.pc = "send_expect"
          /\ \E o \in expect(PromptPatterns, TRUE) :
               /\ buffer' = o.buf
               /\ Goto(t, "expect")
          /\ SessionOnly
       \/ /\ th.pc = "expect"
          /\ \E o \in expect(TrustPatterns, TRUE) :
               /\ buffer' = o.buf
               /\ threads' = [threads EXCEPT ![t] = trust_result(th, o.idx = 1)]
          /\ SessionOnly

thread_untrust(t) ==
    LET th == threads[t] IN
    /\ th.kind = "untrust"
    /\ \/ /\ th.pc = "start"
          /\ process_send("untrust", th.addr)
          /\ Goto(t, "send_expect")
          /\ SessionOnly
       \/ /\ th.pc = "send_expect"
          /\ \E o \in expect(PromptPatterns, TRUE) :
               /\ buffer' = o.buf
               /\ Goto(t, "expect")
          /\ SessionOnly
       \/ /\ th.pc = "expect"
          /\ \E o \in expect(UntrustPatterns, TRUE) :
               /\ buffer' = o.buf
               /\ threads' = [threads EXCEPT ![t] = trust_result(th, o.idx = 1)]
          /\ SessionOnly

\* ------------------------------------------------------------ callbacks
Running == {t \in Tids : threads[t].kind # "watch" /\ threads[t].pc \notin Ended}

\* the callback of a request: the slot of the kind is overwritten with a new
\* thread, which is started; the thread the slot held is left alone
start_thread(kind, a) ==
    /\ nops < load.ops
    /\ Cardinality(Running) < load.running
    /\ nops' = nops + 1
    /\ threads' = Append(threads, NewThread(kind, a, "start"))
    /\ threadobjs' = Put(threadobjs, kind, Len(threads) + 1)
    /\ UNCHANGED <<threadobjs_wait_disconnect, connected_devices, buffer, eof, next, load, call, fn>>

discover == start_thread("discover", NoAddr)
connect == \E a \in load.addrs : start_thread("connect", a)
disconnect == \E a \in load.addrs : start_thread("disconnect", a)
trust == \E a \in load.addrs : start_thread("trust", a)
untrust == \E a \in load.addrs : start_thread("untrust", a)
remove == \E a \in load.addrs : start_thread("remove", a)

\* ------------------------------------------------ helpers without state
NoFn == [name |-> "-", arg |-> <<>>, done |-> FALSE, ret |-> <<>>, raised |-> "none"]

\* A line is a sequence of pieces of text: the literal "Device", one space,
\* the two keywords of block_list, and "a" for any other text without a space.
Atoms == {"Device", " ", "a", "removed", "[ESC[0;"}
block_list == {"[ESC[0;", "removed"}
Lines == UNION {[1..n -> Atoms] : n \in 0..MaxLine}

\* str.index(piece): the first position of the piece, 0 for ValueError
index(str, piece) ==
    IF \E i \in 1..Len(str) : str[i] = piece
    THEN CHOOSE i \in 1..Len(str) : str[i] = piece /\ \A j \in 1..(i-1) : str[j] # piece
    ELSE 0

\* str.split(" ", maxsplit): cut at the first maxsplit spaces
RECURSIVE split(_, _)
split(str, maxsplit) ==
    IF maxsplit = 0 \/ index(str, " ") = 0 THEN <<str>>
    ELSE <<SubSeq(str, 1, index(str, " ") - 1)>>
         \o split(SubSeq(str, index(str, " ") + 1, Len(str)), maxsplit - 1)

\* parse_device_info(info_string): ret is <<>> for the empty dictionary and
\* <<device>> for a device, raised the exception that leaves the method
parse_device_info(info_string) ==
    IF \E i \in 1..Len(info_string) : info_string[i] \in block_list
    THEN [ret |-> <<>>, raised |-> "none"]
    ELSE IF index(info_string, "Device") = 0
    THEN [ret |-> <<>>, raised |-> "none"]
    ELSE LET device_position == index(info_string, "Device")
             attribute_list ==
                 split(SubSeq(info_string, device_position, Len(info_string)), 2)
         IN IF Len(attribute_list) < 3
            THEN [ret |-> <<>>, raised |-> "IndexError"]
            ELSE [ret |-> <<[mac_address |-> attribute_list[2],
                             name |-> attribute_list[3]]>>,
                  raised |-> "none"]

\* a call of parse_device_info on one line of a listing
helper_parse_device_info ==
    /\ fn.name = "parse_device_info"
    /\ ~fn.done
    /\ fn' = [fn EXCEPT !.done = TRUE,
                        !.ret = parse_device_info(fn.arg).ret,
                        !.raised = parse_device_info(fn.arg).raised]
    /\ UNCHANGED <<threads, threadobjs, threadobjs_wait_disconnect, connected_devices,
                   buffer, eof, nops, next, load, call>>

\* the device records parse_device_info can yield
DeviceRecords == {[mac_address |-> a, name |-> n] : a \in Addr, n \in {"speaker", "phone"}}
Listings == UNION {[1..n -> DeviceRecords] : n \in 0..MaxList}

\* "d not in paired", with records compared by address alone
NotInPaired_by_address(d, paired) ==
    \A i \in 1..Len(paired) : paired[i].mac_address # d.mac_address

\* "d not in paired": no element of the list equals the dictionary d
NotInPaired(d, paired) == \A i \in 1..Len(paired) : paired[i] # d

\* [d for d in available if d not in paired]
RECURSIVE get_discoverable_devices(_, _)
get_discoverable_devices(available, paired) ==
    IF available = <<>> THEN <<>>
    ELSE (IF NotInPaired(Head(available), paired) THEN <<Head(available)>> ELSE <<>>)
         \o get_discoverable_devices(Tail(available), paired)

\* a call of get_discoverable_devices, given what the two listings returned
helper_get_discoverable_devices ==
    /\ fn.name = "get_discoverable_devices"
    /\ ~fn.done
    /\ fn' = [fn EXCEPT !.done = TRUE,
                        !.ret = get_discoverable_devices(fn.arg[1], fn.arg[2])]
    /\ UNCHANGED <<threads, threadobjs, threadobjs_wait_disconnect, connected_devices,
                   buffer, eof, nops, next, load, call>>

\* BluetoothHelper.connect, disconnect and start_discover from their expect
\* on: one call of process.expect with the method's pattern list
helper_expect ==
    /\ nops < load.ops
    /\ nops' = nops + 1
    /\ \E pats \in {ConnectPatterns, DisconnectPatterns, DiscoverPatterns} :
          \E o \in expect(pats, TRUE) :
             /\ buffer' = o.buf
             /\ fn' = [name |-> "expect", arg |-> <<pats, buffer>>, done |-> TRUE,
                       ret |-> <<o.idx>>, raised |-> "none"]
    /\ UNCHANGED <<threads, threadobjs, threadobjs_wait_disconnect, connected_devices,
                   eof, next, load, call>>

\* ------------------------------------------------ Bluetoothctl (blctl.py)
NoCall == [pc |-> "idle", op |-> "-", addr |-> NoAddr, ret |-> "none"]

\* a caller calls Bluetoothctl.connect(addr) or Bluetoothctl.disconnect(addr)
blctl_call ==
    /\ call.pc \in {"idle", "returned"}
    /\ nops < load.ops
    /\ nops' = nops + 1
    /\ \E op \in {"connect", "disconnect"}, a \in load.addrs :
          call' = [pc |-> "send", op |-> op, addr |-> a, ret |-> "none"]
    /\ UNCHANGED <<threads, threadobjs, threadobjs_wait_disconnect, connected_devices,
                   buffer, eof, next, load, fn>>

\* the try block of both methods: process.send and time.sleep(2)
blctl_send ==
    /\ call.pc = "send"
    /\ process_send(call.op, call.addr)
    /\ call' = [call EXCEPT !.pc = "expect"]
    /\ UNCHANGED <<threads, threadobjs, threadobjs_wait_disconnect, connected_devices,
                   eof, nops, next, load, fn>>

BlctlDisconnectPatterns == <<Tok("Failed to disconnect"), Tok("Successful disconnected"),
                             EOF, TIMEOUT>>

\* Bluetoothctl.connect, the else branch: self.process.expect() is called
\* without a pattern, which raises TypeError before anything is read; the
\* expect of the result after it is never reached
Bluetoothctl_connect ==
    /\ call.op = "connect"
    /\ call.pc = "expect"
    /\ call' = [call EXCEPT !.pc = "returned", !.ret = "TypeError"]
    /\ UNCHANGED <<threads, threadobjs, threadobjs_wait_disconnect, connected_devices,
                   buffer, eof, nops, next, load, fn>>

\* Bluetoothctl.disconnect, the else branch: return res == 1
Bluetoothctl_disconnect ==
    /\ call.op = "disconnect"
    /\ call.pc = "expect"
    /\ \E o \in expect(BlctlDisconnectPatterns, TRUE) :
          /\ buffer' = o.buf
          /\ call' = [call EXCEPT !.pc = "returned", !.ret = BoolStr(o.idx = 1)]
    /\ UNCHANGED <<threads, threadobjs, threadobjs_wait_disconnect, connected_devices,
                   eof, nops, next, load, fn>>

\* ------------------------------------------------------------ environment
\* the device goes away on its own: "[CHG] Device <addr> Connected: no"
ExternalDisconnect ==
    /\ ~eof
    /\ next < MaxExt
    /\ \E a \in load.addrs : buffer' = Append(buffer, ConnectedNo(a))
    /\ next' = next + 1
    /\ UNCHANGED <<threads, threadobjs, threadobjs_wait_disconnect, connected_devices,
                   eof, nops, load, call, fn>>

\* bluetoothctl exits
SessionClosed ==
    /\ ~eof
    /\ eof' = TRUE
    /\ UNCHANGED <<threads, threadobjs, threadobjs_wait_disconnect, connected_devices,
                   buffer, nops, next, load, call, fn>>

\* ------------------------------------------------------------ specification
\* the state after Bluetooth.__init__
Constructed_but_fn ==
    /\ threads = <<>>
    /\ threadobjs = <<>>
    /\ threadobjs_wait_disconnect = <<>>
    /\ connected_devices = <<>>
    /\ buffer = <<>>
    /\ eof = FALSE
    /\ nops = 0
    /\ next = 0
    /\ call = NoCall

Constructed == Constructed_but_fn /\ fn = NoFn

Init == Constructed /\ load = [ops |-> MaxOps, running |-> MaxRunning, addrs |-> {"A"}]

InitFair == Constructed /\ load = [ops |-> FairOps, running |-> MaxRunning, addrs |-> {"A"}]

InitBlctl == Constructed /\ load = [ops |-> BlctlCalls, running |-> 1, addrs |-> {"A"}]

\* the texts the three methods wait for, and the prompt
ExpectTokens == {Tok("Failed to connect"), Tok("Connection successful"),
                 Tok("Failed to disconnect"), ConnectedNo("A"),
                 Tok("Successful disconnected"), Tok("Discovery started"), Prompt}
SessionOutputs == UNION {[1..n -> ExpectTokens] : n \in 0..MaxBuf}

\* a session that has printed some texts, read by no one yet
InitExpect ==
    /\ threads = <<>>
    /\ threadobjs = <<>>
    /\ threadobjs_wait_disconnect = <<>>
    /\ connected_devices = <<>>
    /\ buffer \in SessionOutputs
    /\ eof \in BOOLEAN
    /\ nops = 0
    /\ next = 0
    /\ call = NoCall
    /\ fn = NoFn
    /\ load = [ops |-> ExpectCalls, running |-> 1, addrs |-> {"A"}]

\* the state a successful Connect(A) leaves: A stored under its name, its
\* watcher blocked on the marker, the Connect thread ended
InitTrust ==
    /\ threads = <<[NewThread("connect", "A", "done")
                      EXCEPT !.result = "True",
                             !.pubs = <<<<"snapclient/startService", "-">>,
                                        <<ResultTopic("connect"), "True">>,
                                        <<"bluetooth/update/deviceLists", "-">>>>],
                   NewThread("watch", "A", "wait")>>
    /\ threadobjs = Put(<<>>, "connect", 1)
    /\ threadobjs_wait_disconnect = Put(<<>>, "A", 2)
    /\ connected_devices = Put(<<>>, "A", DeviceName["A"])
    /\ buffer = <<>>
    /\ eof = FALSE
    /\ nops = 0
    /\ next = 0
    /\ call = NoCall
    /\ fn = NoFn
    /\ load = [ops |-> TrustOps, running |-> TrustRunning, addrs |-> {"A"}]

InitTwo == Constructed /\ load = [ops |-> TwoOps, running |-> 1, addrs |-> Addr]

\* parse_device_info about to read a line
InitParse ==
    /\ Constructed_but_fn
    /\ load = [ops |-> 0, running |-> 0, addrs |-> Addr]
    /\ \E line \in Lines : fn = [NoFn EXCEPT !.name = "parse_device_info", !.arg = line]

\* get_discoverable_devices about to filter two listings
InitDiscoverable ==
    /\ Constructed_but_fn
    /\ load = [ops |-> 0, running |-> 0, addrs |-> Addr]
    /\ \E available \in Listings, paired \in Listings :
          fn = [NoFn EXCEPT !.name = "get_discoverable_devices",
                            !.arg = <<available, paired>>]

InitDiscover ==
    Constructed /\ load = [ops |-> DiscoverOps, running |-> DiscoverRunning, addrs |-> {"A"}]

ThreadStep(t) ==
    \/ thread_discover(t)
    \/ thread_connect(t)
    \/ thread_disconnect(t)
    \/ thread_remove(t)
    \/ thread_trust(t)
    \/ thread_untrust(t)
    \/ thread_wait_until_disconnect(t)
    \/ send_device_lists(t)

\* a step of some thread of each kind
run_discover == \E t \in Tids : thread_discover(t)
run_connect == \E t \in Tids : thread_connect(t)
run_disconnect == \E t \in Tids : thread_disconnect(t)
run_remove == \E t \in Tids : thread_remove(t)
run_trust == \E t \in Tids : thread_trust(t)
run_untrust == \E t \in Tids : thread_untrust(t)
run_wait_until_disconnect == \E t \in Tids : thread_wait_until_disconnect(t)
run_send_device_lists == \E t \in Tids : send_device_lists(t)

Next ==
    \/ discover
    \/ connect
    \/ disconnect
    \/ trust
    \/ untrust
    \/ remove
    \/ run_discover
    \/ run_connect
    \/ run_disconnect
    \/ run_remove
    \/ run_trust
    \/ run_untrust
    \/ run_wait_until_disconnect
    \/ run_send_device_lists
    \/ ExternalDisconnect
    \/ SessionClosed

\* the bus sends Discover requests only: no device is ever connected, so
\* none goes away
DiscoverStep(t) ==
    \/ thread_discover(t)
    \/ send_device_lists(t)

NextDiscover ==
    \/ discover
    \/ run_discover
    \/ run_send_device_lists
    \/ SessionClosed

\* a caller of the wrapper of blctl.py, one call at a time
NextBlctl ==
    \/ blctl_call
    \/ blctl_send
    \/ Bluetoothctl_connect
    \/ Bluetoothctl_disconnect
    \/ ExternalDisconnect
    \/ SessionClosed

SpecBlctl == InitBlctl /\ [][NextBlctl]_vars

\* the bus sends Trust and Untrust requests, which may overlap, while a
\* device is connected
NextTrust ==
    \/ trust
    \/ untrust
    \/ run_trust
    \/ run_untrust
    \/ run_wait_until_disconnect
    \/ run_send_device_lists
    \/ ExternalDisconnect
    \/ SessionClosed

SpecTrust == InitTrust /\ [][NextTrust]_vars

\* the bus sends Connect and Disconnect requests for two devices, one at a
\* time
NextTwo ==
    \/ connect
    \/ disconnect
    \/ run_connect
    \/ run_disconnect
    \/ run_wait_until_disconnect
    \/ run_send_device_lists
    \/ ExternalDisconnect
    \/ SessionClosed

SpecTwo == InitTwo /\ [][NextTwo]_vars

\* parse_device_info on a line
NextParse == helper_parse_device_info

SpecParse == InitParse /\ [][NextParse]_vars

\* get_discoverable_devices on two listings
NextDiscoverable == helper_get_discoverable_devices

SpecDiscoverable == InitDiscoverable /\ [][NextDiscoverable]_vars

\* calls of process.expect on a session that has printed some texts
NextExpect == helper_expect

SpecExpect == InitExpect /\ [][NextExpect]_vars

\* requests one at a time, watchers beside them
Spec == Init /\ [][Next]_vars

\* The interpreter keeps running threads: a thread that can take a step is
\* not left waiting forever while nothing else runs.
FairSpec == InitFair /\ [][Next]_vars /\ WF_vars(\E t \in Tids : ThreadStep(t))

\* Discover requests that overlap
FairDiscover ==
    InitDiscover /\ [][NextDiscover]_vars /\ WF_vars(\E t \in Tids : DiscoverStep(t))

\* ------------------------------------------------------------------ claims
ResultCount(t) == CountTopic(threads[t].pubs, ResultTopic(threads[t].kind))
SnapshotCount(th) == CountTopic(th.pubs, "bluetooth/update/deviceLists")

\* the statements of thread_connect under "if result:"
ConnectBlock == {"if_connected", "available_send", "available_expect", "insert",
                 "if_watched", "soundcard"}
\* the statements of thread_disconnect and thread_remove under "if result:"
CleanupBlock == {"if_connected", "soundcard", "del_connected", "if_watched",
                 "del_watched"}
\* a thread between a send and the return of the expect that follows it
ExpectPcs == {"expect", "send_expect", "wait", "available_expect",
              "lists_expect_devices", "lists_expect_paired",
              "discoverable_expect_devices", "discoverable_expect_paired"}
InSession(t) == threads[t].pc \in ExpectPcs

\* C1: when a Connect thread whose session call succeeded leaves its
\* "if result" block the address is in connected_devices; when a Disconnect
\* thread whose session call succeeded leaves its block the address is not;
\* and each of the two threads ends with exactly one update/deviceLists
\* published.
C1_RoundTrip ==
    [][\A t \in Tids :
          LET th == threads[t]
              after == threads'[t] IN
          /\ (th.kind = "connect" /\ th.pc \in ConnectBlock /\ after.pc \notin ConnectBlock)
                => Has(connected_devices', th.addr)
          /\ (th.kind = "disconnect" /\ th.pc \in CleanupBlock
                 /\ after.pc \notin CleanupBlock)
                => ~Has(connected_devices', th.addr)
          /\ (th.kind \in {"connect", "disconnect"} /\ th.pc \notin Ended
                 /\ after.pc \in Ended)
                => SnapshotCount(after) = 1]_vars

\* C2: a Disconnect, Remove or watcher thread that has found the address in
\* connected_devices still finds it there when it reads and deletes the
\* entry: no other thread deletes the entry between the membership test and
\* the del, so no thread deletes an absent entry.
C2_RemovedOnce ==
    \A t \in Tids :
        (/\ threads[t].kind \in {"disconnect", "remove", "watch"}
         /\ threads[t].pc \in {"soundcard", "del_connected"})
        => Has(connected_devices, threads[t].addr)

\* C3: a watcher that saw its marker when an explicit Remove had already
\* deleted the address deletes nothing from connected_devices and publishes
\* no deviceDisconnect with result true.
C3_WatcherAfterRemove ==
    \A t \in Tids :
        (threads[t].kind = "watch" /\ threads[t].after_remove)
        => /\ ~threads[t].removed
           /\ CountTopic(threads[t].pubs, ResultTopic("watch")) = 0

\* C4: an operation thread has published its result event at most once, and
\* exactly once when it has ended.
C4_OneResultEvent ==
    \A t \in Tids :
        threads[t].kind \in Kinds
        => /\ ResultCount(t) <= 1
           /\ threads[t].pc \in Ended => ResultCount(t) = 1

\* C5: at most one thread is between a send and the return of its expect.
C5_SessionExclusive == Cardinality({t \in Tids : InSession(t)}) <= 1

\* C6: when a Connect thread that has just inserted the address passes the
\* watcher registration, a watcher thread for the address is blocked on the
\* address's marker.
C6_WatcherRunning ==
    [][\A t \in Tids :
          (/\ threads[t].kind = "connect"
           /\ threads[t].pc = "if_watched"
           /\ threads'[t].pc = "soundcard")
          => \E w \in 1..Len(threads') :
                /\ threads'[w].kind = "watch"
                /\ threads'[w].addr = threads[t].addr
                /\ threads'[w].pc = "wait"]_vars

\* C7: if the address is in connected_devices, its marker is in the session
\* output and no Disconnect or Remove of it was requested, then eventually
\* the address is not in connected_devices and a deviceDisconnect with result
\* true was published for it.  (A behaviour in which a Disconnect or Remove
\* of the address is requested later, or in which the session ends, is not
\* held against the statement.)
MarkerPending(a) == \E i \in 1..Len(buffer) : buffer[i] = ConnectedNo(a)
Explicit(a) ==
    \E t \in Tids : threads[t].kind \in {"disconnect", "remove"} /\ threads[t].addr = a
DisconnectPublished(a) ==
    \E t \in Tids :
        /\ threads[t].addr = a
        /\ \E i \in 1..Len(threads[t].pubs) :
              threads[t].pubs[i] = <<ResultTopic("watch"), "True">>
ExternalDisconnected(a) ==
    Has(connected_devices, a) /\ MarkerPending(a) /\ ~Explicit(a)
C7_ExternalDisconnectLive ==
    \A a \in Addr :
        /\ ExternalDisconnected(a)
              ~> (~Has(connected_devices, a) \/ Explicit(a) \/ eof)
        /\ ExternalDisconnected(a)
              ~> (DisconnectPublished(a) \/ Explicit(a) \/ eof)

\* C9: the name resolution of a Connect thread never ends the thread by
\* indexing into an empty list: the thread goes on to publish its
\* deviceConnect result, with connected_devices and the registry as they were.
C9_NameResolutionExplicit ==
    \A t \in Tids :
        threads[t].kind = "connect"
        => /\ threads[t].pc # "IndexError"
           /\ (threads[t].pc \in Ended /\ threads[t].result = "True")
                 => ResultCount(t) = 1

\* C11: a step of send_device_lists or of get_discoverable_devices leaves
\* connected_devices and the two registries as they are, and takes out of
\* the session output no marker that a watcher is waiting for.
SnapshotPcs == {"lists_send_devices", "lists_expect_devices", "lists_send_paired",
                "lists_expect_paired", "discoverable_send_devices",
                "discoverable_expect_devices", "discoverable_send_paired",
                "discoverable_expect_paired"}
Awaited(tok) ==
    \E w \in Tids : /\ threads[w].kind = "watch"
                     /\ threads[w].pc = "wait"
                     /\ tok = ConnectedNo(threads[w].addr)
C11_SnapshotOnlyReads ==
    [][\A t \in Tids :
          (threads[t].pc \in SnapshotPcs /\ threads'[t] # threads[t])
          => /\ UNCHANGED <<connected_devices, threadobjs, threadobjs_wait_disconnect>>
             /\ \A i \in 1..(Len(buffer) - Len(buffer')) : ~Awaited(buffer[i])]_vars

\* C12: a call of expect with a pattern list of the code returns the index
\* of the first pattern of the list that matches the earliest text of the
\* output any pattern matches, and leaves the output after that text; when
\* no text matches and the session is open it returns the index of
\* pexpect.TIMEOUT and leaves the output as it was.
C12_EarliestMatchWins ==
    (fn.name = "expect" /\ fn.done)
    => LET pats == fn.arg[1]
           old == fn.arg[2]
           idx == fn.ret[1]
       IN IF \E i \in 1..Len(old) : MatchesAny(pats, old[i])
          THEN \E i \in 1..Len(old) :
                  /\ \A j \in 1..(i-1) : ~MatchesAny(pats, old[j])
                  /\ Matches(pats[idx + 1], old[i])
                  /\ \A q \in 1..idx : ~Matches(pats[q], old[i])
                  /\ buffer = SubSeq(old, i + 1, Len(old))
          ELSE eof \/ (pats[idx + 1] = TIMEOUT /\ buffer = old)

\* a text of a later pattern of the list came before a text of an earlier
\* one, and the call returned the later pattern's index and left the rest
C12_Witness ==
    /\ fn.name = "expect" /\ fn.done
    /\ fn.arg[1] = DisconnectPatterns
    /\ fn.arg[2] = <<Tok("Successful disconnected"), Tok("Failed to disconnect")>>
    /\ fn.ret[1] = 2
    /\ buffer = <<Tok("Failed to disconnect")>>

\* C13: get_discoverable_devices returns the records of the available
\* listing, in the listing's order, that equal no record of the paired
\* listing in both address and name.
C13_DiscoverableIsDifference ==
    (fn.name = "get_discoverable_devices" /\ fn.done)
    => LET available == fn.arg[1]
           paired == fn.arg[2]
           Unpaired(d) == \A i \in 1..Len(paired) :
                             \/ paired[i].mac_address # d.mac_address
                             \/ paired[i].name # d.name
       IN fn.ret = SelectSeq(available, Unpaired)

\* available [{A, speaker}, {B, phone}] and paired [{B, speaker}, {A, speaker}]
\* give [{B, phone}]: the paired record with B's address and another name
\* takes nothing away
C13_Witness ==
    /\ fn.name = "get_discoverable_devices" /\ fn.done
    /\ fn.arg[1] = <<[mac_address |-> "A", name |-> "speaker"],
                     [mac_address |-> "B", name |-> "phone"]>>
    /\ fn.arg[2] = <<[mac_address |-> "B", name |-> "speaker"],
                     [mac_address |-> "A", name |-> "speaker"]>>
    /\ fn.ret = <<[mac_address |-> "B", name |-> "phone"]>>

\* C14: parse_device_info raises nothing for any line; and for a line
\* <prefix> Device <address> <name and suffix>, whatever the prefix (it
\* holds no "Device") and the suffix, it yields the device whose address is
\* the field after the first "Device" and whose name is all the rest of
\* the line.
C14_ParseYieldsRecord ==
    (fn.name = "parse_device_info" /\ fn.done)
    => /\ fn.raised = "none"
       /\ \A k, m \in 1..Len(fn.arg) :
             (/\ fn.arg[k] = "Device"
              /\ \A j \in 1..(k-1) : fn.arg[j] # "Device"
              /\ k + 2 < m
              /\ fn.arg[k+1] = " "
              /\ fn.arg[m] = " "
              /\ \A j \in (k+2)..(m-1) : fn.arg[j] # " ")
             => fn.ret = <<[mac_address |-> SubSeq(fn.arg, k + 2, m - 1),
                            name |-> SubSeq(fn.arg, m + 1, Len(fn.arg))]>>

\* C15: a watcher that has published update/deviceLists has published its
\* deviceDisconnect with result true before it.
C15_WatcherResultBeforeSnapshot ==
    \A t \in Tids :
        threads[t].kind = "watch"
        => \A i \in 1..Len(threads[t].pubs) :
              threads[t].pubs[i][1] = "bluetooth/update/deviceLists"
              => \E j \in 1..(i-1) :
                    threads[t].pubs[j] = <<ResultTopic("watch"), "True">>

\* C16: a Discover thread publishes nothing before its devicesDiscover
\* result; after a result false it publishes nothing more and ends; after a
\* result true it publishes update/deviceLists and then devicesDiscovered,
\* both by the time it has ended, and nothing else.
DiscoverOrder == <<<<ResultTopic("discover"), "True">>,
                   <<"bluetooth/update/deviceLists", "-">>,
                   <<"bluetooth/result/devicesDiscovered", "-">>>>
C17_TrustFrame ==
    [][\A t \in Tids :
          (threads[t].kind \in {"trust", "untrust"} /\ threads'[t] # threads[t])
          => /\ UNCHANGED <<connected_devices, threadobjs_wait_disconnect>>
             /\ Len(threads'[t].pubs) <= 1
             /\ \A i \in 1..Len(threads'[t].pubs) :
                   threads'[t].pubs[i][1] = ResultTopic(threads[t].kind)]_vars

\* a Trust thread has ended with its result published while the address is
\* connected and watched
C17_Witness ==
    \E t \in Tids :
        /\ threads[t].kind = "trust" /\ threads[t].pc = "done"
        /\ threads[t].pubs = <<<<ResultTopic("trust"), "True">>>>
        /\ Has(connected_devices, threads[t].addr)
        /\ Has(threadobjs_wait_disconnect, threads[t].addr)

\* C18: for every address at most one watcher thread is alive (started and
\* neither returned nor ended by an exception).
WatchersAlive(a) ==
    {t \in Tids : /\ threads[t].kind = "watch"
                  /\ threads[t].addr = a
                  /\ threads[t].pc \notin Ended}
C18_OneWatcherPerAddress == \A a \in Addr : Cardinality(WatchersAlive(a)) <= 1

\* C19: when the expect of a Connect or Disconnect thread returns the index
\* of a success text, the text it matched is about the thread's own
\* address: the report of its command or that address's "Connected: no".
\* (The report of a command on another address, left in the output by an
\* earlier call, and another address's "Connected: no" are not.)
MatchedText == buffer[Len(buffer) - Len(buffer')]
C19_SuccessIsOwn ==
    [][\A t \in Tids :
          (/\ threads[t].kind \in {"connect", "disconnect"}
           /\ threads[t].pc = "expect"
           /\ threads'[t].result = "True")
          => MatchedText[2] = {threads[t].addr}]_vars

\* C20: for an address, the stopService messages published so far are
\* never more than the startService messages and never fall more than one
\* behind them (the messages alternate, a start first); and every stop
\* belongs to one removal of the address from connected_devices: one done by
\* the thread that published it, or the one that thread is about to do, of
\* which there is at most one.
RECURSIVE TopicTotal(_, _, _)
TopicTotal(n, a, topic) ==
    IF n = 0 THEN 0
    ELSE (IF threads[n].addr = a THEN CountTopic(threads[n].pubs, topic) ELSE 0)
         + TopicTotal(n - 1, a, topic)
Starts(a) == TopicTotal(Len(threads), a, "snapclient/startService")
Stops(a) == TopicTotal(Len(threads), a, "snapclient/stopService")
Removals(a) == Cardinality({t \in Tids : threads[t].addr = a /\ threads[t].removed})
Removing(a) ==
    {t \in Tids : /\ threads[t].addr = a
                  /\ threads[t].kind \in {"disconnect", "remove", "watch"}
                  /\ threads[t].pc = "del_connected"}
C20_StartStopAlternate ==
    \A a \in Addr :
        /\ Stops(a) <= Starts(a)
        /\ Starts(a) <= Stops(a) + 1
        /\ Cardinality(Removing(a)) <= 1
        /\ Stops(a) = Removals(a) + Cardinality(Removing(a))

\* C10: a session call that ends with failure text, a timeout or the end
\* of the session raises nothing to its caller, and the operation thread
\* that made it deletes nothing, never enters the statements under
\* "if result", and ends having published its result event once, with
\* result false.
Raised == {"TypeError"}
C10_FailureIsFalse ==
    /\ call.ret \notin Raised
    /\ \A t \in Tids :
          (threads[t].kind \in Kinds /\ threads[t].result = "False")
          => /\ threads[t].pc \notin Crashed
             /\ threads[t].pc \notin (ConnectBlock \cup CleanupBlock)
             /\ ~threads[t].removed
             /\ threads[t].pc \in Ended
                   => /\ ResultCount(t) = 1
                      /\ threads[t].pubs[1] = <<ResultTopic(threads[t].kind), "False">>

\* C8: a Discover request taken while a Discover thread is running is
\* started and tracked (threadobjs['discover'] is the new thread, the old one
\* is left as it was), and every Discover thread, superseded or not,
\* eventually publishes its devicesDiscover result.
C8_SupersededDiscoverPublishes ==
    /\ [][\A t \in Tids :
            (Len(threads') = Len(threads) + 1 /\ threads'[Len(threads')].kind = "discover")
            => /\ threadobjs'["discover"] = Len(threads')
               /\ threads'[t] = threads[t]]_vars
    /\ \A t \in 1..DiscoverOps :
          (t \in Tids /\ threads[t].kind = "discover")
             ~> (t \in Tids /\ ResultCount(t) = 1)

\* two Discover threads, the first still running and the second tracked,
\* both with their result published
C8_Witness ==
    \E t1, t2 \in Tids :
        /\ t1 < t2
        /\ threads[t1].kind = "discover" /\ threads[t2].kind = "discover"
        /\ threads[t1].pc \notin Ended
        /\ Has(threadobjs, "discover") /\ threadobjs["discover"] = t2
        /\ ResultCount(t1) = 1 /\ ResultCount(t2) = 1
====
